---- MODULE Spec2Model ----
(***************************************************************************)
(* Model of the autonomous cache-analysis agent (class AutonomousAgent):   *)
(* the iteration loop of run(), processResponse, the tool dispatcher       *)
(* executeTool with its seven tools, the investigation memory and the      *)
(* summary reduction buildSummary.                                         *)
(*                                                                         *)
(* A JavaScript string is a TLA+ string, a sequence of characters: string  *)
(* concatenation and template literals are \o, and startsWith, includes,   *)
(* toLowerCase and the URL parser work on the characters.  The oracle (the *)
(* LLM) and the collaborators (httpClient, cacheTester, analyze,           *)
(* dnsLookup, wpSiteHealth) are the environment: what they answer is drawn *)
(* from small sets.                                                        *)
(***************************************************************************)
EXTENDS Integers, Sequences, FiniteSets, TLC

VARIABLES
    pc,                  \* position of run(): init, loop, oracle, process, exit, done, rejected
    config,              \* this.config: baseUrl, maxIterations
    listeners,           \* event names that have a listener (EventEmitter.on before run)
    world,               \* the environment of this run: the tool invocations its oracle
                         \* issues and the answers its collaborators give
    memory,              \* this.memory: analyzedPages, discoveredUrls, experiments, observations, hypotheses
    conversationHistory, \* this.conversationHistory
    iteration,           \* this.iteration
    completed,           \* this.completed
    finalAnalysis,       \* this.finalAnalysis: <<>> when unset, else <<record>>
    response,            \* the oracle response being processed: content blocks, stop_reason
    blockIdx,            \* index of the next block of response.content
    assistantContent,    \* processResponse local
    toolResults,         \* processResponse local
    calls,               \* log of the calls made to the collaborators
    roundTrips,          \* number of client.messages.create calls started
    blocksIssued,        \* number of content blocks the oracle has issued in this run
    summary              \* the value run() returned: <<>> until then, else <<AgentSummary>>

vars == <<pc, config, listeners, world, memory, conversationHistory, iteration, completed,
          finalAnalysis, response, blockIdx, assistantContent, toolResults, calls,
          roundTrips, blocksIssued, summary>>

----------------------------------------------------------------------------
\* Bounds of the model

\* config.maxIterations ranges over 0..MaxCap
MaxCap == 2
\* the oracle issues at most MaxBlocks content blocks in a run
MaxBlocks == 2

----------------------------------------------------------------------------
\* Strings

\* the JavaScript value undefined where a string is expected (a missing input field)
Undefined == "<undefined>"

\* the JavaScript value undefined where an array is expected
UndefinedList == <<"<undefined>">>

\* String(v) / template interpolation ${v}
ToStr(v) == IF v = Undefined THEN "undefined" ELSE v

\* s[i]
CharAt(s, i) == SubSeq(s, i, i)

\* s.startsWith(p)
StartsWith(s, p) == Len(s) >= Len(p) /\ SubSeq(s, 1, Len(p)) = p

\* s.includes(sub)
StrIncludes(s, sub) == \E i \in 1..(Len(s) - Len(sub) + 1) : SubSeq(s, i, i + Len(sub) - 1) = sub

\* index of the first character of s that is in chars, Len(s) + 1 when there is none
FirstIndexOf(s, chars) ==
    LET I == {i \in 1..Len(s) : CharAt(s, i) \in chars}
    IN  IF I = {} THEN Len(s) + 1 ELSE CHOOSE i \in I : \A j \in I : i <= j

UpperChars == "ABCDEFGHIJKLMNOPQRSTUVWXYZ"
LowerChars == "abcdefghijklmnopqrstuvwxyz"

\* the lower-case letter of every upper-case letter
LowerTable == [c \in {CharAt(UpperChars, i) : i \in 1..Len(UpperChars)} |->
                 CharAt(LowerChars, CHOOSE i \in 1..Len(UpperChars) : CharAt(UpperChars, i) = c)]

LowerChar(c) == IF c \in DOMAIN LowerTable THEN LowerTable[c] ELSE c

\* s.toLowerCase()
RECURSIVE ToLowerCase(_)
ToLowerCase(s) == IF Len(s) = 0 THEN "" ELSE LowerChar(Head(s)) \o ToLowerCase(Tail(s))

\* array.includes(x)
Includes(arr, x) == \E i \in 1..Len(arr) : arr[i] = x

BoolStr(b) == IF b THEN "true" ELSE "false"

\* array.join(sep) of an array of strings
RECURSIVE Join(_, _)
Join(arr, sep) == IF Len(arr) = 0 THEN ""
                  ELSE IF Len(arr) = 1 THEN arr[1]
                  ELSE arr[1] \o sep \o Join(Tail(arr), sep)

----------------------------------------------------------------------------
\* URLs: new URL(u) for http(s) URLs "scheme://host/path?query#fragment" without
\* userinfo, port, dot segments or escapes.

Schemes == {"https://", "http://"}

\* the scheme prefix of u, "" when it has none
SchemeOf(u) == IF StartsWith(u, "https://") THEN "https://"
               ELSE IF StartsWith(u, "http://") THEN "http://"
               ELSE ""

\* u after its scheme
AfterScheme(u) == SubSeq(u, Len(SchemeOf(u)) + 1, Len(u))

\* the host as written: up to the first "/", "?" or "#"
RawHost(u) == SubSeq(AfterScheme(u), 1, FirstIndexOf(AfterScheme(u), {"/", "?", "#"}) - 1)

\* new URL(u) does not throw
UrlValid(u) == /\ SchemeOf(u) # ""
               /\ Len(RawHost(u)) > 0
               /\ ~StrIncludes(RawHost(u), " ")

\* new URL(u).hostname (the parser lower-cases the host)
hostname(u) == ToLowerCase(RawHost(u))

\* new URL(u).origin
origin(u) == SchemeOf(u) \o hostname(u)

\* new URL(u).pathname: the path without query and fragment, "/" when empty
pathname(u) ==
    LET rest == SubSeq(AfterScheme(u), Len(RawHost(u)) + 1, Len(AfterScheme(u)))
        p == SubSeq(rest, 1, FirstIndexOf(rest, {"?", "#"}) - 1)
    IN  IF Len(p) = 0 THEN "/" ELSE p

\* the directory of a path: everything up to and including its last "/"
RECURSIVE PathDir(_)
PathDir(p) == IF Len(p) = 0 \/ CharAt(p, Len(p)) = "/" THEN p
              ELSE PathDir(SubSeq(p, 1, Len(p) - 1))

\* new URL(href, base): <<url>> when it parses, <<>> when it throws
Resolve(href, base) ==
    IF StrIncludes(href, "://") \/ StrIncludes(href, " ")
    THEN IF UrlValid(href) THEN <<href>> ELSE <<>>
    ELSE IF StartsWith(href, "/") THEN <<origin(base) \o href>>
    ELSE IF StartsWith(href, "?") \/ StartsWith(href, "#")
         THEN <<origin(base) \o pathname(base) \o href>>
    ELSE <<origin(base) \o PathDir(pathname(base)) \o href>>

\* pathname.replace(/\/$/, '')
DropTrailingSlash(p) == IF Len(p) > 0 /\ CharAt(p, Len(p)) = "/"
                        THEN SubSeq(p, 1, Len(p) - 1)
                        ELSE p

\* resolved.origin + resolved.pathname.replace(/\/$/, '')
NormalizeUrl(u) == origin(u) \o DropTrailingSlash(pathname(u))

\* config.baseUrl of the model
BaseUrl == "https://site.com/"

----------------------------------------------------------------------------
\* Map<string, PageResult>: insertion-ordered, a sequence of [key, value]

MapHas(m, k) == \E i \in 1..Len(m) : m[i].key = k

MapSet(m, k, v) ==
    IF MapHas(m, k)
    THEN [i \in 1..Len(m) |-> IF m[i].key = k THEN [key |-> k, value |-> v] ELSE m[i]]
    ELSE Append(m, [key |-> k, value |-> v])

MapKeys(m) == {m[i].key : i \in 1..Len(m)}

----------------------------------------------------------------------------
\* Helpers of the agent

\* Record<string, string>: a set of [name, value] with distinct names
HeaderValue(headers, name) ==
    IF \E h \in headers : h.name = name
    THEN (CHOOSE h \in headers : h.name = name).value
    ELSE Undefined

CacheHeaders == <<"x-cache", "cf-cache-status", "x-varnish", "x-proxy-cache",
                  "x-kinsta-cache", "x-wpe-cached", "x-litespeed-cache">>

detectCacheHit(headers) ==
    \E i \in 1..Len(CacheHeaders) :
        LET raw == HeaderValue(headers, CacheHeaders[i])
            value == ToLowerCase(raw)
        IN  /\ raw # Undefined
            /\ Len(value) > 0
            /\ (StrIncludes(value, "hit") \/ value = "cached")

\* the loop of extractLinks without the hostname test
RECURSIVE extractLinksFromAnyHost(_, _, _, _)
extractLinksFromAnyHost(hrefs, baseUrl, analyzedPages, links) ==
    IF Len(hrefs) = 0 THEN links
    ELSE LET href == Head(hrefs)
             resolved == Resolve(href, baseUrl)
             next ==
               IF \/ StartsWith(href, "#") \/ StartsWith(href, "javascript:")
                  \/ StartsWith(href, "mailto:") \/ StartsWith(href, "tel:")
               THEN links
               ELSE IF Len(resolved) = 0 THEN links
               ELSE LET normalized == NormalizeUrl(resolved[1])
                    IN  IF ~Includes(links, normalized) /\ ~MapHas(analyzedPages, normalized)
                        THEN Append(links, normalized)
                        ELSE links
         IN  extractLinksFromAnyHost(Tail(hrefs), baseUrl, analyzedPages, next)

\* extractLinks(html, baseUrl): html is given as the href values that linkRegex
\* captures, in order of occurrence
RECURSIVE extractLinksFrom(_, _, _, _)
extractLinksFrom(hrefs, baseUrl, analyzedPages, links) ==
    IF Len(hrefs) = 0 THEN links
    ELSE LET href == Head(hrefs)
             resolved == Resolve(href, baseUrl)
             next ==
               IF \/ StartsWith(href, "#") \/ StartsWith(href, "javascript:")
                  \/ StartsWith(href, "mailto:") \/ StartsWith(href, "tel:")
               THEN links
               ELSE IF Len(resolved) = 0 THEN links
               ELSE IF hostname(resolved[1]) # hostname(baseUrl) THEN links
               ELSE LET normalized == NormalizeUrl(resolved[1])
                    IN  IF ~Includes(links, normalized) /\ ~MapHas(analyzedPages, normalized)
                        THEN Append(links, normalized)
                        ELSE links
         IN  extractLinksFrom(Tail(hrefs), baseUrl, analyzedPages, next)

extractLinks(html, baseUrl, analyzedPages) == extractLinksFrom(html, baseUrl, analyzedPages, <<>>)

\* links.slice(0, 10)
LinkSlice == 10
Slice(arr, n) == SubSeq(arr, 1, IF Len(arr) < n THEN Len(arr) ELSE n)

\* a call to a collaborator, as logged in calls
Call(fn, url, headers) == [fn |-> fn, url |-> url, headers |-> headers]

\* what a tool hands back to executeTool: the agent state it leaves, and either the
\* string it returns or the message of the error it throws
Returns(s, str) == [s |-> s, raised |-> FALSE, ret |-> str]
Throws(s, msg) == [s |-> s, raised |-> TRUE, ret |-> msg]

\* input.<field> of a tool invocation: undefined when the field is missing
Field(input, f) == IF f \in DOMAIN input THEN input[f] ELSE Undefined
ListField(input, f) == IF f \in DOMAIN input THEN input[f] ELSE UndefinedList

----------------------------------------------------------------------------
\* Tool implementations.  s is the agent state a tool reads and writes:
\* [memory, completed, finalAnalysis, calls]; env is what the collaborators answer.

\* fetch_page without the same-domain check
toolFetchPageAnyDomain(s, url, env) ==
    IF ~UrlValid(config.baseUrl) \/ ~UrlValid(ToStr(url))
    THEN Returns(s, "Invalid URL: " \o ToStr(url))
    ELSE
    LET s1 == [s EXCEPT !.calls = Append(@, Call("httpClient", url, {}))]
    IN  IF env.http.kind = "throw" THEN Throws(s1, "httpClient failed")
        ELSE Returns(s1, "Failed to fetch " \o url \o ": " \o env.http.error)

\* fetch_page replacing discoveredUrls by the links of the page instead of adding them
toolFetchPageForgetsDiscovered(s, url, env) ==
    IF ~UrlValid(config.baseUrl) \/ ~UrlValid(ToStr(url))
    THEN Returns(s, "Invalid URL: " \o ToStr(url))
    ELSE IF hostname(url) # hostname(config.baseUrl)
    THEN Returns(s, "Cannot fetch " \o url \o " - different domain than " \o config.baseUrl)
    ELSE
    LET s1 == [s EXCEPT !.calls = Append(@, Call("httpClient", url, {}))]
        s2 == [s1 EXCEPT !.calls = Append(@, Call("cacheTester", url, {}))]
        s3 == [s2 EXCEPT !.calls = Append(@, Call("analyze", url, {}))]
        pages == MapSet(s.memory.analyzedPages, url,
                        [url |-> url, httpResult |-> env.http, analysis |-> env.analysis])
        links == extractLinks(env.http.html, url, pages)
        s4 == [s3 EXCEPT !.memory.analyzedPages = pages,
                         !.memory.discoveredUrls = {links[i] : i \in 1..Len(links)}]
    IN  IF env.http.kind = "throw" THEN Throws(s1, "httpClient failed")
        ELSE IF env.http.kind = "error"
        THEN Returns(s1, "Failed to fetch " \o url \o ": " \o env.http.error)
        ELSE IF env.cache = "throw" THEN Throws(s2, "cacheTester failed")
        ELSE IF env.analyze = "throw" THEN Throws(s3, "analyze failed")
        ELSE Returns(s4, "{url:" \o url
                           \o ",working:" \o BoolStr(env.analysis.cacheStatus.working)
                           \o ",discoveredLinks:[" \o Join(Slice(links, LinkSlice), ",") \o "]}")

\* fetch_page going on with the result of a fetch that reported an error
toolFetchPageIgnoresError(s, url, env) ==
    IF ~UrlValid(config.baseUrl) \/ ~UrlValid(ToStr(url))
    THEN Returns(s, "Invalid URL: " \o ToStr(url))
    ELSE IF hostname(url) # hostname(config.baseUrl)
    THEN Returns(s, "Cannot fetch " \o url \o " - different domain than " \o config.baseUrl)
    ELSE
    LET s1 == [s EXCEPT !.calls = Append(@, Call("httpClient", url, {}))]
        s2 == [s1 EXCEPT !.calls = Append(@, Call("cacheTester", url, {}))]
        s3 == [s2 EXCEPT !.calls = Append(@, Call("analyze", url, {}))]
        pages == MapSet(s.memory.analyzedPages, url,
                        [url |-> url, httpResult |-> env.http, analysis |-> env.analysis])
        links == extractLinks(env.http.html, url, pages)
        s4 == [s3 EXCEPT !.memory.analyzedPages = pages,
                         !.memory.discoveredUrls = @ \cup {links[i] : i \in 1..Len(links)}]
    IN  IF env.http.kind = "throw" THEN Throws(s1, "httpClient failed")
        ELSE IF env.cache = "throw" THEN Throws(s2, "cacheTester failed")
        ELSE IF env.analyze = "throw" THEN Throws(s3, "analyze failed")
        ELSE Returns(s4, "{url:" \o url
                           \o ",working:" \o BoolStr(env.analysis.cacheStatus.working)
                           \o ",discoveredLinks:[" \o Join(Slice(links, LinkSlice), ",") \o "]}")

toolFetchPage(s, url, env) ==
    IF ~UrlValid(config.baseUrl) \/ ~UrlValid(ToStr(url))
    THEN Returns(s, "Invalid URL: " \o ToStr(url))
    ELSE IF hostname(url) # hostname(config.baseUrl)
    THEN Returns(s, "Cannot fetch " \o url \o " - different domain than " \o config.baseUrl)
    ELSE
    LET s1 == [s EXCEPT !.calls = Append(@, Call("httpClient", url, {}))]
        s2 == [s1 EXCEPT !.calls = Append(@, Call("cacheTester", url, {}))]
        s3 == [s2 EXCEPT !.calls = Append(@, Call("analyze", url, {}))]
        pages == MapSet(s.memory.analyzedPages, url,
                        [url |-> url, httpResult |-> env.http, analysis |-> env.analysis])
        links == extractLinks(env.http.html, url, pages)
        s4 == [s3 EXCEPT !.memory.analyzedPages = pages,
                         !.memory.discoveredUrls = @ \cup {links[i] : i \in 1..Len(links)}]
    IN  IF env.http.kind = "throw" THEN Throws(s1, "httpClient failed")
        ELSE IF env.http.kind = "error"
        THEN Returns(s1, "Failed to fetch " \o url \o ": " \o env.http.error)
        ELSE IF env.cache = "throw" THEN Throws(s2, "cacheTester failed")
        ELSE IF env.analyze = "throw" THEN Throws(s3, "analyze failed")
        ELSE Returns(s4, "{url:" \o url
                           \o ",working:" \o BoolStr(env.analysis.cacheStatus.working)
                           \o ",discoveredLinks:[" \o Join(Slice(links, LinkSlice), ",") \o "]}")

\* the implemented variants of test_cache_behavior
TestTypes == {"bypass_header", "vary_encoding", "with_cookie", "query_string", "mobile_ua"}

VariantHeaders(testType, now) ==
    CASE testType = "bypass_header" ->
            {[name |-> "Cache-Control", value |-> "no-cache"],
             [name |-> "Pragma", value |-> "no-cache"]}
      [] testType = "vary_encoding" ->
            {[name |-> "Accept-Encoding", value |-> "identity"]}
      [] testType = "with_cookie" ->
            {[name |-> "Cookie", value |-> "wordpress_test_cookie=" \o now]}
      [] testType = "mobile_ua" ->
            {[name |-> "User-Agent", value |-> "Mozilla/5.0 (iPhone; CPU iPhone OS 16_0 like Mac OS X) AppleWebKit/605.1.15"]}
      [] OTHER -> {}

VariantDescription(testType) ==
    CASE testType = "bypass_header" -> "Testing if cache respects no-cache directive"
      [] testType = "vary_encoding" -> "Testing cache behavior with different Accept-Encoding"
      [] testType = "with_cookie" -> "Testing if cookies bypass cache"
      [] testType = "query_string" -> "Testing cache behavior with query strings"
      [] testType = "mobile_ua" -> "Testing if mobile requests are cached separately"
      [] OTHER -> ""

\* test_cache_behavior with post_request, which the schema advertises, running as a
\* variant without request headers
toolTestCacheBehaviorPostRequest(s, url, testType, hypothesis, env) ==
    IF testType \notin TestTypes \cup {"post_request"}
    THEN Returns(s, "Unknown test type: " \o ToStr(testType))
    ELSE IF testType = "query_string" /\ url = Undefined
    THEN Throws(s, "Cannot read properties of undefined (reading 'includes')")
    ELSE
    LET headers == VariantHeaders(testType, env.now)
        testUrl == IF testType = "query_string"
                   THEN url \o (IF StrIncludes(url, "?") THEN "&" ELSE "?")
                            \o "cache_bust=" \o env.now
                   ELSE url
        s1 == [s EXCEPT !.calls = Append(@, Call("httpClient", testUrl, headers))]
        s2 == [s1 EXCEPT !.calls = Append(@, Call("httpClient", testUrl, headers))]
        HitStr(r) == IF detectCacheHit(r.headers) THEN "HIT" ELSE "MISS"
        experiment == [name |-> testType,
                       hypothesis |-> hypothesis,
                       method |-> VariantDescription(testType),
                       result |-> "First request: " \o HitStr(env.http) \o ", Second: "
                                    \o HitStr(env.http2),
                       conclusion |-> ""]
        s3 == [s2 EXCEPT !.memory.experiments = Append(@, experiment)]
    IN  IF env.http.kind = "throw" THEN Throws(s1, "httpClient failed")
        ELSE IF env.http2.kind = "throw" THEN Throws(s2, "httpClient failed")
        ELSE IF env.http.kind = "error" \/ env.http2.kind = "error"
        THEN Throws(s2, "Cannot read properties of undefined")
        ELSE Returns(s3, "{testType:" \o testType \o ",hypothesis:" \o ToStr(hypothesis)
                           \o ",first:" \o HitStr(env.http) \o ",second:" \o HitStr(env.http2)
                           \o "}")

\* test_cache_behavior sending its second request to the page itself, without the variant
toolTestCacheBehaviorSecondPlain(s, url, testType, hypothesis, env) ==
    IF testType \notin TestTypes
    THEN Returns(s, "Unknown test type: " \o ToStr(testType))
    ELSE IF testType = "query_string" /\ url = Undefined
    THEN Throws(s, "Cannot read properties of undefined (reading 'includes')")
    ELSE
    LET headers == VariantHeaders(testType, env.now)
        testUrl == IF testType = "query_string"
                   THEN url \o (IF StrIncludes(url, "?") THEN "&" ELSE "?")
                            \o "cache_bust=" \o env.now
                   ELSE url
        s1 == [s EXCEPT !.calls = Append(@, Call("httpClient", testUrl, headers))]
        s2 == [s1 EXCEPT !.calls = Append(@, Call("httpClient", url, {}))]
        HitStr(r) == IF detectCacheHit(r.headers) THEN "HIT" ELSE "MISS"
        experiment == [name |-> testType,
                       hypothesis |-> hypothesis,
                       method |-> VariantDescription(testType),
                       result |-> "First request: " \o HitStr(env.http) \o ", Second: "
                                    \o HitStr(env.http2),
                       conclusion |-> ""]
        s3 == [s2 EXCEPT !.memory.experiments = Append(@, experiment)]
    IN  IF env.http.kind = "throw" THEN Throws(s1, "httpClient failed")
        ELSE IF env.http2.kind = "throw" THEN Throws(s2, "httpClient failed")
        ELSE IF env.http.kind = "error" \/ env.http2.kind = "error"
        THEN Throws(s2, "Cannot read properties of undefined")
        ELSE Returns(s3, "{testType:" \o testType \o ",hypothesis:" \o ToStr(hypothesis)
                           \o ",first:" \o HitStr(env.http) \o ",second:" \o HitStr(env.http2)
                           \o "}")

toolTestCacheBehavior(s, url, testType, hypothesis, env) ==
    IF testType \notin TestTypes
    THEN Returns(s, "Unknown test type: " \o ToStr(testType))
    ELSE IF testType = "query_string" /\ url = Undefined
    THEN Throws(s, "Cannot read properties of undefined (reading 'includes')")
    ELSE
    LET headers == VariantHeaders(testType, env.now)
        testUrl == IF testType = "query_string"
                   THEN url \o (IF StrIncludes(url, "?") THEN "&" ELSE "?")
                            \o "cache_bust=" \o env.now
                   ELSE url
        s1 == [s EXCEPT !.calls = Append(@, Call("httpClient", testUrl, headers))]
        s2 == [s1 EXCEPT !.calls = Append(@, Call("httpClient", testUrl, headers))]
        HitStr(r) == IF detectCacheHit(r.headers) THEN "HIT" ELSE "MISS"
        experiment == [name |-> testType,
                       hypothesis |-> hypothesis,
                       method |-> VariantDescription(testType),
                       result |-> "First request: " \o HitStr(env.http) \o ", Second: "
                                    \o HitStr(env.http2),
                       conclusion |-> ""]
        s3 == [s2 EXCEPT !.memory.experiments = Append(@, experiment)]
    IN  IF env.http.kind = "throw" THEN Throws(s1, "httpClient failed")
        ELSE IF env.http2.kind = "throw" THEN Throws(s2, "httpClient failed")
        ELSE IF env.http.kind = "error" \/ env.http2.kind = "error"
        THEN Throws(s2, "Cannot read properties of undefined")
        ELSE Returns(s3, "{testType:" \o testType \o ",hypothesis:" \o ToStr(hypothesis)
                           \o ",first:" \o HitStr(env.http) \o ",second:" \o HitStr(env.http2)
                           \o "}")

toolDnsLookup(s, url, env) ==
    LET s1 == [s EXCEPT !.calls = Append(@, Call("dnsLookup", url, {}))]
    IN  IF env.dns = "throw" THEN Throws(s1, "dnsLookup failed")
        ELSE Returns(s1, "{hostname:" \o env.dns \o "}")

toolCheckWordPressApi(s, url, env) ==
    LET s1 == [s EXCEPT !.calls = Append(@, Call("wpSiteHealth", url, {}))]
    IN  IF env.wp = "throw" THEN Throws(s1, "wpSiteHealth failed")
        ELSE Returns(s1, "{isWordPress:" \o env.wp \o "}")

\* record_observation putting the text in front of the list
toolRecordObservationPrepends(s, observation) ==
    Returns([s EXCEPT !.memory.observations = <<observation>> \o @],
            "Observation recorded: \"" \o ToStr(observation) \o "\"")

toolRecordObservation(s, observation) ==
    Returns([s EXCEPT !.memory.observations = Append(@, observation)],
            "Observation recorded: \"" \o ToStr(observation) \o "\"")

toolFormHypothesis(s, hypothesis) ==
    Returns([s EXCEPT !.memory.hypotheses = Append(@, hypothesis)],
            "Hypothesis recorded: \"" \o ToStr(hypothesis)
              \o "\". You can now test this with test_cache_behavior or fetch_page.")

toolCompleteAnalysis(s, summaryText, recommendations, confidence, areas) ==
    Returns([s EXCEPT !.completed = TRUE,
                      !.finalAnalysis = <<[summary |-> summaryText,
                                           recommendations |-> recommendations,
                                           confidence |-> confidence,
                                           areasNeedingMoreInvestigation |-> areas]>>],
            "Analysis complete. The agent will now generate the final report.")

\* the switch with a default branch that throws
ToolSwitchDefaultThrows(s, name, input, env) ==
    IF name = "fetch_page" THEN toolFetchPage(s, Field(input, "url"), env)
    ELSE IF name = "record_observation"
    THEN toolRecordObservation(s, Field(input, "observation"))
    ELSE IF name = "dns_lookup" THEN toolDnsLookup(s, Field(input, "url"), env)
    ELSE IF name = "check_wordpress_api" THEN toolCheckWordPressApi(s, Field(input, "url"), env)
    ELSE Throws(s, "Unknown tool: " \o name)

\* the switch of executeTool
ToolSwitch(s, name, input, env) ==
    CASE name = "fetch_page" -> toolFetchPage(s, Field(input, "url"), env)
      [] name = "test_cache_behavior" ->
            toolTestCacheBehavior(s, Field(input, "url"), Field(input, "test_type"),
                                  Field(input, "hypothesis"), env)
      [] name = "dns_lookup" -> toolDnsLookup(s, Field(input, "url"), env)
      [] name = "check_wordpress_api" -> toolCheckWordPressApi(s, Field(input, "url"), env)
      [] name = "record_observation" -> toolRecordObservation(s, Field(input, "observation"))
      [] name = "form_hypothesis" -> toolFormHypothesis(s, Field(input, "hypothesis"))
      [] name = "complete_analysis" ->
            toolCompleteAnalysis(s, Field(input, "summary"),
                                 ListField(input, "recommendations"),
                                 Field(input, "confidence"),
                                 ListField(input, "areas_needing_more_investigation"))
      [] OTHER -> Returns(s, "Unknown tool: " \o name)

\* executeTool without its try/catch
executeToolNoCatch(s, name, input, env) == ToolSwitch(s, name, input, env)

\* executeTool: the switch inside try/catch; an error thrown by a tool becomes a string
executeTool(s, name, input, env) ==
    LET r == ToolSwitch(s, name, input, env)
    IN  IF r.raised
        THEN Returns(r.s, "Error executing " \o name \o ": " \o r.ret)
        ELSE r

----------------------------------------------------------------------------
\* buildSummary

\* the elements collected without the membership test
DistinctKeepsAll(arr, acc) == acc \o arr

\* Array.from(new Set(arr)): the distinct elements in order of first occurrence
RECURSIVE Distinct(_, _)
Distinct(arr, acc) ==
    IF Len(arr) = 0 THEN acc
    ELSE Distinct(Tail(arr), IF Includes(acc, Head(arr)) THEN acc ELSE Append(acc, Head(arr)))

\* the concatenation of the arrays of an array, in order
RECURSIVE Flatten(_)
Flatten(arrs) == IF Len(arrs) = 0 THEN <<>> ELSE Head(arrs) \o Flatten(Tail(arrs))

ConflictKey(conflict) == Join(conflict.plugins, " + ") \o ": " \o conflict.reason

\* buildSummary counting an exact half of the pages as a working cache
buildSummaryHalfIsWorking(mem, fa) ==
    LET pages == [i \in 1..Len(mem.analyzedPages) |-> mem.analyzedPages[i].value]
        plugins == [k \in 1..Len(pages) |-> pages[k].analysis.plugins]
        cdns == [k \in 1..Len(pages) |-> pages[k].analysis.cdns]
        keys == [k \in 1..Len(pages) |->
                    [i \in 1..Len(pages[k].analysis.conflicts) |->
                        ConflictKey(pages[k].analysis.conflicts[i])]]
        cacheWorkingCount ==
            Cardinality({i \in 1..Len(pages) : pages[i].analysis.cacheStatus.working})
    IN  [pagesAnalyzed |-> Len(pages),
         cacheWorking |-> Len(pages) > 0 /\ 2 * cacheWorkingCount >= Len(pages),
         detectedPlugins |-> Distinct(Flatten(plugins), <<>>),
         detectedCDNs |-> Distinct(Flatten(cdns), <<>>),
         conflicts |-> Distinct(Flatten(keys), <<>>),
         experiments |-> mem.experiments,
         finalAnalysis |-> IF Len(fa) = 0 \/ fa[1].summary = Undefined \/ fa[1].summary = ""
                           THEN "Analysis incomplete"
                           ELSE fa[1].summary,
         recommendations |-> IF Len(fa) = 0 \/ fa[1].recommendations = UndefinedList
                             THEN <<>>
                             ELSE fa[1].recommendations]

buildSummary(mem, fa) ==
    LET pages == [i \in 1..Len(mem.analyzedPages) |-> mem.analyzedPages[i].value]
        plugins == [k \in 1..Len(pages) |-> pages[k].analysis.plugins]
        cdns == [k \in 1..Len(pages) |-> pages[k].analysis.cdns]
        keys == [k \in 1..Len(pages) |->
                    [i \in 1..Len(pages[k].analysis.conflicts) |->
                        ConflictKey(pages[k].analysis.conflicts[i])]]
        cacheWorkingCount ==
            Cardinality({i \in 1..Len(pages) : pages[i].analysis.cacheStatus.working})
    IN  [pagesAnalyzed |-> Len(pages),
         cacheWorking |-> Len(pages) > 0 /\ 2 * cacheWorkingCount > Len(pages),
         detectedPlugins |-> Distinct(Flatten(plugins), <<>>),
         detectedCDNs |-> Distinct(Flatten(cdns), <<>>),
         conflicts |-> Distinct(Flatten(keys), <<>>),
         experiments |-> mem.experiments,
         finalAnalysis |-> IF Len(fa) = 0 \/ fa[1].summary = Undefined \/ fa[1].summary = ""
                           THEN "Analysis incomplete"
                           ELSE fa[1].summary,
         recommendations |-> IF Len(fa) = 0 \/ fa[1].recommendations = UndefinedList
                             THEN <<>>
                             ELSE fa[1].recommendations]

----------------------------------------------------------------------------
\* The environment: what the oracle asks for and what the collaborators answer

HttpOk(html, headers) == [kind |-> "ok", html |-> html, headers |-> headers, error |-> ""]
HttpError == [kind |-> "error", html |-> <<>>, headers |-> {}, error |-> "ETIMEDOUT"]
HttpThrow == [kind |-> "throw", html |-> <<>>, headers |-> {}, error |-> ""]

HitHeaders == {[name |-> "x-cache", value |-> "HIT from varnish"]}
MissHeaders == {[name |-> "x-cache", value |-> "MISS"]}

HtmlPlain == <<"/blog/", "#top", "https://other.com/x">>
HtmlLinks == <<"/shop", "mailto:me@site.com", "/blog/", "/shop/">>

AnalysisWorking ==
    [cacheStatus |-> [working |-> TRUE],
     plugins |-> <<"WP Rocket", "W3 Total Cache">>,
     cdns |-> <<"Cloudflare">>,
     conflicts |-> <<[plugins |-> <<"WP Rocket", "W3 Total Cache">>,
                      reason |-> "two page caches"]>>]
AnalysisBroken ==
    [cacheStatus |-> [working |-> FALSE],
     plugins |-> <<"LiteSpeed Cache", "W3 Total Cache">>,
     cdns |-> <<"Cloudflare", "Fastly">>,
     conflicts |-> <<[plugins |-> <<"LiteSpeed Cache", "W3 Total Cache">>,
                      reason |-> "duplicate minification"],
                     [plugins |-> <<"WP Rocket", "W3 Total Cache">>,
                      reason |-> "two page caches"]>>]

DefaultEnv == [http |-> HttpThrow, http2 |-> HttpThrow, cache |-> "ok", analyze |-> "ok",
               analysis |-> AnalysisBroken, dns |-> "throw", wp |-> "throw",
               now |-> "1700000000000"]

\* answers of the collaborators to fetch_page
FetchPlain == [DefaultEnv EXCEPT !.http = HttpOk(HtmlPlain, HitHeaders),
                                 !.analysis = AnalysisWorking]
FetchLinks == [DefaultEnv EXCEPT !.http = HttpOk(HtmlLinks, MissHeaders),
                                 !.analysis = AnalysisBroken]
FetchError == [DefaultEnv EXCEPT !.http = HttpError]
CacheTesterThrows == [FetchPlain EXCEPT !.cache = "throw"]
AnalyzeThrows == [FetchPlain EXCEPT !.analyze = "throw"]

\* answers of httpClient to the two requests of test_cache_behavior
TestEnv(first, second) == [DefaultEnv EXCEPT !.http = first, !.http2 = second]
MissThenHit == TestEnv(HttpOk(<<>>, MissHeaders), HttpOk(<<>>, HitHeaders))
HitThenHit == TestEnv(HttpOk(<<>>, HitHeaders), HttpOk(<<>>, HitHeaders))
MissThenThrow == TestEnv(HttpOk(<<>>, MissHeaders), HttpThrow)
ErrorThenHit == TestEnv(HttpError, HttpOk(<<>>, HitHeaders))

\* header names as the server sent them, and a "hit" under a name that is no cache header
MixedCaseThenCached == TestEnv(HttpOk(<<>>, {[name |-> "X-Cache", value |-> "HIT"]}),
                               HttpOk(<<>>, {[name |-> "x-wpe-cached", value |-> "Cached"]}))
DynamicThenMiss == TestEnv(HttpOk(<<>>, {[name |-> "cf-cache-status", value |-> "DYNAMIC"]}),
                           HttpOk(<<>>, {[name |-> "x-cache", value |-> "MISS"],
                                         [name |-> "x-served-by", value |-> "hit-box"]}))

\* answers of dnsLookup and wpSiteHealth
LookupsOk == [DefaultEnv EXCEPT !.dns = "site.com", !.wp = "true"]

NoInput == [unused |-> ""]

TextBlock == [type |-> "text", text |-> "thinking"]

Invoke(name, input) == [type |-> "tool_use", name |-> name, input |-> input]

FetchOf(u) == Invoke("fetch_page", [url |-> u])
TestOf(t) == Invoke("test_cache_behavior",
                    [url |-> BaseUrl, test_type |-> t, hypothesis |-> "cookies bypass"])
ObserveOf(o) == Invoke("record_observation", [observation |-> o])
HypothesisOf(h) == Invoke("form_hypothesis", [hypothesis |-> h])
CompleteWorks == Invoke("complete_analysis",
                        [summary |-> "cache works",
                         recommendations |-> <<"enable CDN", "fix TTL">>,
                         confidence |-> "high"])
CompleteBroken == Invoke("complete_analysis",
                         [summary |-> "cache broken",
                          recommendations |-> <<"purge cache", "fix TTL">>,
                          confidence |-> "medium"])
CompleteEmpty == Invoke("complete_analysis",
                        [summary |-> "", recommendations |-> <<>>, confidence |-> "low"])
UnknownTool == Invoke("delete_site", [url |-> BaseUrl])

\* the runs of the model: in each, the oracle draws its tool invocations from oracle and
\* every collaborator call is answered as one element of collab says
Worlds ==
    {[oracle |-> {ObserveOf("obs one"), ObserveOf("obs two"), HypothesisOf("hyp one"),
                  Invoke("record_observation", NoInput), CompleteWorks},
      collab |-> {DefaultEnv}],
     [oracle |-> {UnknownTool, Invoke("dns_lookup", [url |-> BaseUrl]),
                  Invoke("check_wordpress_api", [url |-> BaseUrl]),
                  Invoke("fetch_page", NoInput), TextBlock},
      collab |-> {DefaultEnv, LookupsOk}],
     [oracle |-> {CompleteWorks, CompleteBroken, Invoke("complete_analysis", NoInput),
                  CompleteEmpty, ObserveOf("obs one"), TextBlock},
      collab |-> {DefaultEnv}],
     [oracle |-> {FetchOf("https://site.com/"), FetchOf("https://site.com/blog/"),
                  FetchOf("https://site.com/blog"), FetchOf("https://other.com/x"),
                  CompleteWorks},
      collab |-> {FetchPlain, FetchLinks}],
     [oracle |-> {FetchOf("https://site.com/blog"), FetchOf("https://other.com/x"),
                  HypothesisOf("hyp one")},
      collab |-> {DefaultEnv, FetchError, CacheTesterThrows, AnalyzeThrows, FetchPlain}],
     [oracle |-> {TestOf("bypass_header"), TestOf("query_string"), ObserveOf("obs one"),
                  CompleteBroken},
      collab |-> {MissThenHit, HitThenHit}],
     [oracle |-> {TestOf("with_cookie"), TestOf("post_request"),
                  Invoke("test_cache_behavior", NoInput), HypothesisOf("hyp one")},
      collab |-> {DefaultEnv, MissThenThrow, ErrorThenHit, MissThenHit}],
     [oracle |-> {TestOf("vary_encoding"), TestOf("mobile_ua"),
                  Invoke("test_cache_behavior",
                         [test_type |-> "query_string", hypothesis |-> "query strings miss"])},
      collab |-> {MixedCaseThenCached, DynamicThenMiss}]}

\* the content of the response of iteration k: the blocks the oracle chose, the
\* tool_use block at position i carrying the id "toolu_k_i"
Content(blocks, k) ==
    [i \in 1..Len(blocks) |->
        IF blocks[i].type = "tool_use"
        THEN [type |-> "tool_use",
              id |-> "toolu_" \o ToString(k) \o "_" \o ToString(i),
              name |-> blocks[i].name,
              input |-> blocks[i].input]
        ELSE blocks[i]]

\* the number of tool_use blocks of a content sequence
NumToolUses(content) == Cardinality({i \in 1..Len(content) : content[i].type = "tool_use"})

\* the responses of the oracle at iteration k, with at most budget content blocks
Responses(k, budget) ==
    {[content |-> Content(blocks, k),
      stop_reason |-> IF NumToolUses(blocks) > 0 THEN "tool_use" ELSE "end_turn"] :
        blocks \in UNION {[1..n -> world.oracle] : n \in 0..budget}}

\* the sets of events that have a listener
ListenerSets == {{}, {"error", "tool_use", "thinking", "observation", "hypothesis",
                      "page_analyzed", "experiment_complete", "log", "complete", "start"}}

----------------------------------------------------------------------------
\* The agent

\* the agent state the tools read and write
AgentState == [memory |-> memory, completed |-> completed,
               finalAnalysis |-> finalAnalysis, calls |-> calls]

InitialPrompt == "You are analyzing the WordPress site at: " \o BaseUrl

NoResponse == [content |-> <<>>, stop_reason |-> ""]

\* the state after the constructor, listeners subscribed, run() not yet called
Init ==
    /\ pc = "init"
    /\ config \in [baseUrl : {BaseUrl}, maxIterations : 0..MaxCap]
    /\ listeners \in ListenerSets
    /\ world \in Worlds
    /\ memory = [analyzedPages |-> <<>>,
                 discoveredUrls |-> {BaseUrl},
                 experiments |-> <<>>,
                 observations |-> <<>>,
                 hypotheses |-> <<>>]
    /\ conversationHistory = <<>>
    /\ iteration = 0
    /\ completed = FALSE
    /\ finalAnalysis = <<>>
    /\ response = NoResponse
    /\ blockIdx = 1
    /\ assistantContent = <<>>
    /\ toolResults = <<>>
    /\ calls = <<>>
    /\ roundTrips = 0
    /\ blocksIssued = 0
    /\ summary = <<>>

\* run() up to the loop: the seeding user turn
RunStart ==
    /\ pc = "init"
    /\ conversationHistory' = Append(conversationHistory,
                                     [role |-> "user",
                                      content |-> <<[type |-> "text", text |-> InitialPrompt]>>])
    /\ pc' = "loop"
    /\ UNCHANGED <<config, listeners, world, memory, iteration, completed, finalAnalysis, response,
                   blockIdx, assistantContent, toolResults, calls, roundTrips, blocksIssued,
                   summary>>

\* the loop condition with the cap compared by <=
LoopCondInclusive == ~completed /\ iteration <= config.maxIterations

\* the loop condition without the completion flag
LoopCondIgnoresCompleted == iteration < config.maxIterations

\* the loop condition without the cap
LoopCondIgnoresCap == ~completed

\* the condition of the while loop
LoopCond == ~completed /\ iteration < config.maxIterations

\* the next oracle call started without waiting for processResponse
OracleCallWithoutWaiting ==
    /\ pc \in {"loop", "process"}
    /\ LoopCond
    /\ iteration' = iteration + 1
    /\ roundTrips' = roundTrips + 1
    /\ pc' = "oracle"
    /\ UNCHANGED <<config, listeners, world, memory, conversationHistory, completed, finalAnalysis,
                   response, blockIdx, assistantContent, toolResults, calls, blocksIssued,
                   summary>>

\* one more iteration: the counter is incremented and the oracle is called
OracleCall ==
    /\ pc = "loop"
    /\ LoopCond
    /\ iteration' = iteration + 1
    /\ roundTrips' = roundTrips + 1
    /\ pc' = "oracle"
    /\ UNCHANGED <<config, listeners, world, memory, conversationHistory, completed, finalAnalysis,
                   response, blockIdx, assistantContent, toolResults, calls, blocksIssued,
                   summary>>

\* emit(event) throws: EventEmitter throws on 'error' when it has no listener
EmitThrows(event) == event = "error" /\ "error" \notin listeners

\* where run() goes from its catch block: the emit of 'error', then break
AfterCatch == IF EmitThrows("error") THEN "rejected" ELSE "exit"

\* client.messages.create resolves: processResponse starts on the response
OracleRespond ==
    /\ pc = "oracle"
    /\ \E r \in Responses(iteration, MaxBlocks - blocksIssued) :
          /\ response' = r
          /\ blocksIssued' = blocksIssued + Len(r.content)
    /\ blockIdx' = 1
    /\ assistantContent' = <<>>
    /\ toolResults' = <<>>
    /\ pc' = "process"
    /\ UNCHANGED <<config, listeners, world, memory, conversationHistory, iteration, completed,
                   finalAnalysis, calls, roundTrips, summary>>

\* client.messages.create rejects: the catch block of run()
OracleFail ==
    /\ pc = "oracle"
    /\ pc' = AfterCatch
    /\ UNCHANGED <<config, listeners, world, memory, conversationHistory, iteration, completed,
                   finalAnalysis, response, blockIdx, assistantContent, toolResults, calls,
                   roundTrips, blocksIssued, summary>>

\* processResponse, one text block
ProcessText ==
    /\ pc = "process"
    /\ blockIdx <= Len(response.content)
    /\ response.content[blockIdx].type = "text"
    /\ assistantContent' = Append(assistantContent,
                                  [type |-> "text", text |-> response.content[blockIdx].text])
    /\ blockIdx' = blockIdx + 1
    /\ UNCHANGED <<pc, config, listeners, world, memory, conversationHistory, iteration, completed,
                   finalAnalysis, response, toolResults, calls, roundTrips, blocksIssued, summary>>

\* processResponse, one tool_use block: the tool is executed and its result collected;
\* an error that executeTool lets through ends processResponse in the catch block of run()
ProcessToolUse ==
    /\ pc = "process"
    /\ blockIdx <= Len(response.content)
    /\ response.content[blockIdx].type = "tool_use"
    /\ LET block == response.content[blockIdx]
       IN  \E env \in world.collab :
           \E r \in {executeTool(AgentState, block.name, block.input, env)} :
                  /\ memory' = r.s.memory
                  /\ completed' = r.s.completed
                  /\ finalAnalysis' = r.s.finalAnalysis
                  /\ calls' = r.s.calls
                  /\ assistantContent' = Append(assistantContent, block)
                  /\ IF r.raised
                     THEN /\ pc' = AfterCatch
                          /\ UNCHANGED <<toolResults, blockIdx>>
                     ELSE /\ toolResults' = Append(toolResults,
                                                   [type |-> "tool_result",
                                                    tool_use_id |-> block.id,
                                                    content |-> r.ret])
                          /\ blockIdx' = blockIdx + 1
                          /\ pc' = pc
    /\ UNCHANGED <<config, listeners, world, conversationHistory, iteration, response, roundTrips,
                   blocksIssued, summary>>

\* processResponse after its loop, appending the tool results before the oracle's turn
ProcessEndResultsFirst ==
    /\ pc = "process"
    /\ blockIdx > Len(response.content)
    /\ conversationHistory' =
          LET h == IF Len(toolResults) > 0
                   THEN Append(conversationHistory, [role |-> "user", content |-> toolResults])
                   ELSE conversationHistory
          IN  Append(h, [role |-> "assistant", content |-> assistantContent])
    /\ pc' = "loop"
    /\ UNCHANGED <<config, listeners, world, memory, iteration, completed, finalAnalysis, response,
                   blockIdx, assistantContent, toolResults, calls, roundTrips, blocksIssued,
                   summary>>

\* processResponse after its loop: the oracle's turn and the tool results are appended
ProcessEnd ==
    /\ pc = "process"
    /\ blockIdx > Len(response.content)
    /\ conversationHistory' =
          LET h == Append(conversationHistory,
                          [role |-> "assistant", content |-> assistantContent])
          IN  IF Len(toolResults) > 0
              THEN Append(h, [role |-> "user", content |-> toolResults])
              ELSE h
    /\ pc' = "loop"
    /\ UNCHANGED <<config, listeners, world, memory, iteration, completed, finalAnalysis, response,
                   blockIdx, assistantContent, toolResults, calls, roundTrips, blocksIssued,
                   summary>>

\* the fallback set after the loop when the analysis was not completed
FallbackAnalysis ==
    [summary |-> "Analysis incomplete - reached iteration limit",
     recommendations |-> <<"Run agent with more iterations for complete analysis">>,
     confidence |-> "low",
     areasNeedingMoreInvestigation |-> UndefinedList]

\* run() after the loop, taking the fallback whenever the cap is used up
FinishFallbackAtCap ==
    /\ \/ pc = "exit"
       \/ pc = "loop" /\ ~LoopCond
    /\ finalAnalysis' = IF iteration >= config.maxIterations
                        THEN <<FallbackAnalysis>>
                        ELSE finalAnalysis
    /\ summary' = <<buildSummary(memory, finalAnalysis')>>
    /\ pc' = "done"
    /\ UNCHANGED <<config, listeners, world, memory, conversationHistory, iteration, completed,
                   response, blockIdx, assistantContent, toolResults, calls, roundTrips,
                   blocksIssued>>

\* run() after the loop (left by its condition or by break): fallback, buildSummary, return
Finish ==
    /\ \/ pc = "exit"
       \/ pc = "loop" /\ ~LoopCond
    /\ finalAnalysis' = IF ~completed THEN <<FallbackAnalysis>> ELSE finalAnalysis
    /\ summary' = <<buildSummary(memory, finalAnalysis')>>
    /\ pc' = "done"
    /\ UNCHANGED <<config, listeners, world, memory, conversationHistory, iteration, completed,
                   response, blockIdx, assistantContent, toolResults, calls, roundTrips,
                   blocksIssued>>

Next ==
    \/ RunStart
    \/ OracleCall
    \/ OracleRespond
    \/ OracleFail
    \/ ProcessText
    \/ ProcessToolUse
    \/ ProcessEnd
    \/ Finish

Spec == Init /\ [][Next]_vars

\* the steps of run() other than the dispatch of a tool
StepsButDispatch ==
    RunStart \/ OracleCall \/ OracleRespond \/ OracleFail \/ ProcessText \/ ProcessEnd \/ Finish

\* run() with its awaits resuming: every oracle round-trip and every collaborator call
\* returns or fails, and the code after an await then runs. executeTool is total, so
\* the dispatch is enabled exactly when processResponse is at a tool_use block, and its
\* weak fairness is written with that condition in the place of ENABLED.
FairSpec ==
    /\ Spec
    /\ WF_vars(StepsButDispatch)
    /\ \/ []<>~(/\ pc = "process"
                /\ blockIdx <= Len(response.content)
                /\ response.content[blockIdx].type = "tool_use")
       \/ []<><<ProcessToolUse>>_vars

----------------------------------------------------------------------------
\* Vocabulary of the properties

\* processResponse is about to dispatch a tool_use block
Dispatching == /\ pc = "process"
               /\ blockIdx <= Len(response.content)
               /\ response.content[blockIdx].type = "tool_use"

\* the block processResponse is at
CurBlock == response.content[blockIdx]

\* processResponse is about to dispatch the tool called name
DispatchingTool(name) == Dispatching /\ CurBlock.name = name

ToolNames == {"fetch_page", "test_cache_behavior", "dns_lookup", "check_wordpress_api",
              "record_observation", "form_hypothesis", "complete_analysis"}

\* a is a prefix of b
IsPrefix(a, b) == Len(a) <= Len(b) /\ SubSeq(b, 1, Len(a)) = a

\* the tool results that have reached the Conversation
ResultsInHistory ==
    {conversationHistory[i].content[j].content :
        <<i, j>> \in {p \in (1..Len(conversationHistory)) \X (1..MaxBlocks) :
                        /\ p[2] <= Len(conversationHistory[p[1]].content)
                        /\ conversationHistory[p[1]].content[p[2]].type = "tool_result"}}

\* complete_analysis was dispatched earlier in the oracle turn being processed
CompletedInTurn ==
    /\ pc = "process"
    /\ \E i \in 1..Len(assistantContent) :
          /\ assistantContent[i].type = "tool_use"
          /\ assistantContent[i].name = "complete_analysis"

----------------------------------------------------------------------------
\* C1: whatever the cap N = config.maxIterations >= 0 and whatever the oracle answers, the
\* iteration counter always equals the number of oracle round-trips started, is at most
\* N (so at most N round-trips are made), and no step decreases it.
C1_IterationBound ==
    /\ [](/\ iteration = roundTrips
          /\ iteration <= config.maxIterations
          /\ roundTrips <= config.maxIterations)
    /\ [][iteration' >= iteration]_vars

\* a run that used its whole cap of MaxCap round-trips and returned
C1_Witness == /\ pc = "done"
              /\ config.maxIterations = MaxCap
              /\ roundTrips = MaxCap

\* C2: when a run returns without complete_analysis having been invoked, FinalAnalysis
\* is the fallback (confidence "low", exactly one recommendation), and the fallback is
\* synthesized only when one more oracle round-trip would exceed the cap.
C2_FallbackOnlyAtCap ==
    (pc = "done" /\ ~completed) =>
        /\ Len(finalAnalysis) = 1
        /\ finalAnalysis[1].confidence = "low"
        /\ Len(finalAnalysis[1].recommendations) = 1
        /\ iteration + 1 > config.maxIterations

\* C3: once complete_analysis has been dispatched in an oracle turn, the rest of that turn
\* dispatches nothing: no tool result is collected, no collaborator is called, and Memory
\* and FinalAnalysis stay as they are.
C3_DiscardAfterComplete ==
    [][CompletedInTurn =>
          /\ toolResults' = toolResults
          /\ calls' = calls
          /\ memory' = memory
          /\ finalAnalysis' = finalAnalysis]_vars

\* C4: the completion flag starts false, is set only by a dispatch of complete_analysis,
\* is never reset, and once it is set no oracle round-trip starts and the iteration
\* counter stays as it is.
C4_CompletionTerminal ==
    /\ ~completed
    /\ [][/\ (~completed /\ completed') => DispatchingTool("complete_analysis")
          /\ completed => /\ completed'
                          /\ pc' # "oracle"
                          /\ roundTrips' = roundTrips
                          /\ iteration' = iteration]_vars

\* a run that returned completed before its cap was used up
C4_Witness == /\ pc = "done"
              /\ completed
              /\ iteration < config.maxIterations

\* C5: once FinalAnalysis is set, no step of the run changes it.
C5_FinalAnalysisSetOnce ==
    [][Len(finalAnalysis) > 0 => finalAnalysis' = finalAnalysis]_vars

\* C6: a failed oracle call leaves the loop at once with Memory as it was, and run() does
\* not fail: it goes on to return the summary of that Memory.
C6_OracleFailureStillReturns ==
    /\ [][(pc = "oracle" /\ pc' # "process") => (pc' = "exit" /\ memory' = memory)]_vars
    /\ [][pc = "exit" => (pc' = "done" /\ summary' = <<buildSummary(memory, finalAnalysis')>>)]_vars

\* C7: every dispatch (whatever the tool name, its input and the collaborators' answers)
\* returns a result that is collected for the invocation, and does not end
\* processResponse or the loop: processResponse runs to its end, the results reach the
\* Conversation, and run() leaves the loop only through the loop condition or a failed
\* oracle call.
C7_DispatchNeverRaises ==
    [][/\ Dispatching =>
            /\ pc' = "process"
            /\ blockIdx' = blockIdx + 1
            /\ Len(toolResults') = Len(toolResults) + 1
            /\ toolResults'[Len(toolResults')].type = "tool_result"
            /\ toolResults'[Len(toolResults')].tool_use_id = CurBlock.id
            /\ toolResults'[Len(toolResults')].content \in STRING
       /\ pc = "process" => pc' \in {"process", "loop"}
       /\ (pc = "process" /\ pc' = "loop" /\ Len(toolResults) > 0) =>
            conversationHistory'[Len(conversationHistory')] =
                [role |-> "user", content |-> toolResults]
       /\ (pc = "loop" /\ LoopCond) => pc' = "oracle"]_vars

\* a tool failed (its error became the result text) and the next round-trip started
C7_Witness ==
    /\ roundTrips = 2
    /\ \E r \in ResultsInHistory : StartsWith(r, "Error executing ")

\* C8: dispatching a name outside the seven tools returns "Unknown tool: <name>", calls no
\* collaborator, leaves Memory, the completion flag and FinalAnalysis as they are, and
\* processResponse goes on.
C8_UnknownTool ==
    [][(Dispatching /\ CurBlock.name \notin ToolNames) =>
          /\ toolResults' = Append(toolResults,
                                   [type |-> "tool_result",
                                    tool_use_id |-> CurBlock.id,
                                    content |-> "Unknown tool: " \o CurBlock.name])
          /\ calls' = calls
          /\ memory' = memory
          /\ completed' = completed
          /\ finalAnalysis' = finalAnalysis
          /\ pc' = "process"]_vars

\* the result of an unknown tool reached the Conversation and the next round-trip started
C8_Witness ==
    /\ roundTrips = 2
    /\ "Unknown tool: delete_site" \in ResultsInHistory

\* C9: fetch_page with a URL whose hostname is not the base URL's returns the rejection
\* string, which depends on the URL and the base URL only, calls no collaborator, and
\* leaves analyzedPages and discoveredUrls as they are.
C9_CrossOriginRejected ==
    [][(/\ DispatchingTool("fetch_page")
        /\ UrlValid(ToStr(Field(CurBlock.input, "url")))
        /\ hostname(CurBlock.input.url) # hostname(config.baseUrl)) =>
          /\ toolResults'[Len(toolResults')].content =
                "Cannot fetch " \o CurBlock.input.url \o " - different domain than "
                    \o config.baseUrl
          /\ calls' = calls
          /\ memory'.analyzedPages = memory.analyzedPages
          /\ memory'.discoveredUrls = memory.discoveredUrls]_vars

\* a cross-origin fetch_page was rejected, in a run whose collaborators answer
C9_Witness ==
    /\ "Cannot fetch https://other.com/x - different domain than https://site.com/"
          \in ResultsInHistory
    /\ FetchPlain \in world.collab
    /\ calls = <<>>

\* C10: observations, hypotheses and experiments only grow at their end: every step
\* leaves each list a prefix of its new value; record_observation appends exactly its
\* text to observations and form_hypothesis exactly its text to hypotheses, each leaving
\* the other lists as they are.
C10_AppendOnly ==
    [][/\ IsPrefix(memory.observations, memory'.observations)
       /\ IsPrefix(memory.hypotheses, memory'.hypotheses)
       /\ IsPrefix(memory.experiments, memory'.experiments)
       /\ DispatchingTool("record_observation") =>
            /\ memory'.observations =
                  Append(memory.observations, Field(CurBlock.input, "observation"))
            /\ memory'.hypotheses = memory.hypotheses
            /\ memory'.experiments = memory.experiments
       /\ DispatchingTool("form_hypothesis") =>
            /\ memory'.hypotheses =
                  Append(memory.hypotheses, Field(CurBlock.input, "hypothesis"))
            /\ memory'.observations = memory.observations
            /\ memory'.experiments = memory.experiments]_vars

\* two different observations were recorded, the second after the first
C10_Witness ==
    /\ Len(memory.observations) = 2
    /\ memory.observations[1] # memory.observations[2]

\* the elements of a list
Range(seq) == {seq[i] : i \in 1..Len(seq)}

\* the position of key k in the map
MapIndex(m, k) == CHOOSE i \in 1..Len(m) : m[i].key = k

\* the step is a fetch_page that succeeded: it returned the JSON report of the page
FetchSucceeds ==
    /\ DispatchingTool("fetch_page")
    /\ Len(toolResults') = Len(toolResults) + 1
    /\ StartsWith(toolResults'[Len(toolResults')].content, "{url:")

----------------------------------------------------------------------------
\* C11: discoveredUrls contains the base URL in every state and no step removes an
\* element; a step adds elements only when it is a fetch_page that succeeded, and what
\* it adds are the links extracted from the page it stored.
C11_DiscoveredUrlsGrow ==
    /\ [](config.baseUrl \in memory.discoveredUrls)
    /\ [][/\ memory.discoveredUrls \subseteq memory'.discoveredUrls
          /\ memory'.discoveredUrls # memory.discoveredUrls => FetchSucceeds
          /\ FetchSucceeds =>
                LET url == CurBlock.input.url
                    page == memory'.analyzedPages[MapIndex(memory'.analyzedPages, url)].value
                IN  memory'.discoveredUrls =
                        memory.discoveredUrls
                            \cup Range(extractLinks(page.httpResult.html, url,
                                                    memory'.analyzedPages))]_vars

\* two pages were fetched and links of both are in discoveredUrls next to the base URL
C11_Witness ==
    /\ Len(memory.analyzedPages) = 2
    /\ {BaseUrl, "https://site.com/blog", "https://site.com/shop"} \subseteq memory.discoveredUrls

\* the tool invocations of an oracle turn, in the order received
Invocations(content) == SelectSeq(content, LAMBDA b : b.type = "tool_use")

\* processResponse has finished an oracle response in this step
ResponseProcessed == pc = "process" /\ pc' = "loop"

\* the entry holds one result per invocation, in order, each with the invocation's id
ResultsAnswer(entry, invocations) ==
    /\ entry.role = "user"
    /\ Len(entry.content) = Len(invocations)
    /\ \A j \in 1..Len(invocations) :
          /\ entry.content[j].type = "tool_result"
          /\ entry.content[j].tool_use_id = invocations[j].id
          /\ entry.content[j].content \in STRING

----------------------------------------------------------------------------
\* C12 as stated: no step removes or changes a Conversation entry, and every oracle
\* response processed grows the Conversation by exactly two entries: the oracle's whole
\* turn, then one dispatcher entry with one result per tool invocation of the turn, in
\* the order of the invocations, each carrying the id of its invocation.
C12_TwoEntriesPerResponse ==
    [][/\ IsPrefix(conversationHistory, conversationHistory')
       /\ ResponseProcessed =>
            LET n == Len(conversationHistory)
            IN  /\ Len(conversationHistory') = n + 2
                /\ conversationHistory'[n + 1] =
                      [role |-> "assistant", content |-> response.content]
                /\ ResultsAnswer(conversationHistory'[n + 2],
                                 Invocations(response.content))]_vars

\* C12 amended: no step removes or changes a Conversation entry; every oracle response
\* processed grows the Conversation by the oracle's whole turn as one entry, followed,
\* when the turn holds at least one tool invocation, by one dispatcher entry with one
\* result per invocation, in the order of the invocations, each carrying the id of its
\* invocation; a turn without tool invocation adds the oracle's entry alone.  Nothing
\* else but the seeding of run() adds an entry.
C12_ConversationGrowth ==
    [][/\ IsPrefix(conversationHistory, conversationHistory')
       /\ conversationHistory' # conversationHistory => (pc = "init" \/ ResponseProcessed)
       /\ ResponseProcessed =>
            LET n == Len(conversationHistory)
                invocations == Invocations(response.content)
            IN  /\ Len(conversationHistory') = n + (IF Len(invocations) > 0 THEN 2 ELSE 1)
                /\ conversationHistory'[n + 1] =
                      [role |-> "assistant", content |-> response.content]
                /\ Len(invocations) > 0 =>
                      ResultsAnswer(conversationHistory'[n + 2], invocations)]_vars

\* a turn with two tool invocations reached the Conversation, followed by one entry of
\* two results
C12_Witness ==
    /\ pc = "loop"
    /\ \E i \in 1..(Len(conversationHistory) - 1) :
          /\ conversationHistory[i].role = "assistant"
          /\ Len(Invocations(conversationHistory[i].content)) = 2
          /\ Len(conversationHistory[i + 1].content) = 2

\* the page analyzedPages holds for url after the step
StoredPage(url) == memory'.analyzedPages[MapIndex(memory'.analyzedPages, url)].value

\* u is the normalized URL of a page that is analyzed
AlreadyAnalyzed(pages, u) == \E k \in MapKeys(pages) : NormalizeUrl(k) = u

\* the links of a page as the Link Extractor is to return them: of the anchor targets
\* hrefs of the page fetched at url, those that are not fragment-only, javascript:,
\* mailto: or tel:, that resolve to the hostname of url, normalized, each once at its
\* first occurrence, without the URLs already analyzed
LinkTargets(hrefs, url, pages) ==
    LET Kept(i) ==
            /\ ~StartsWith(hrefs[i], "#") /\ ~StartsWith(hrefs[i], "javascript:")
            /\ ~StartsWith(hrefs[i], "mailto:") /\ ~StartsWith(hrefs[i], "tel:")
            /\ Len(Resolve(hrefs[i], url)) = 1
            /\ hostname(Resolve(hrefs[i], url)[1]) = hostname(url)
        Norm(i) == NormalizeUrl(Resolve(hrefs[i], url)[1])
        First(i) ==
            /\ Kept(i)
            /\ ~AlreadyAnalyzed(pages, Norm(i))
            /\ \A j \in 1..(i - 1) : Kept(j) => Norm(j) # Norm(i)
        idx == SelectSeq([i \in 1..Len(hrefs) |-> i], First)
    IN  [k \in 1..Len(idx) |-> Norm(idx[k])]

----------------------------------------------------------------------------
\* C13: analyzedPages holds one entry per normalized URL fetched successfully: URLs that
\* normalize to the same URL share one entry, so the number of entries is the number of
\* distinct normalized URLs among the URLs fetched.
C13_KeyedByNormalizedUrl ==
    Len(memory.analyzedPages) =
        Cardinality({NormalizeUrl(k) : k \in MapKeys(memory.analyzedPages)})

\* C14: a successful fetch_page of url reports and discovers exactly the links of the
\* page as the Link Extractor is to return them, in first-occurrence order; in
\* particular none of them is a page already analyzed.
C14_LinkExtractor ==
    [][FetchSucceeds =>
          LET url == CurBlock.input.url
              links == LinkTargets(StoredPage(url).httpResult.html, url,
                                   memory'.analyzedPages)
          IN  /\ memory'.discoveredUrls = memory.discoveredUrls \cup Range(links)
              /\ StrIncludes(toolResults'[Len(toolResults')].content,
                             "discoveredLinks:[" \o Join(Slice(links, LinkSlice), ",") \o "]")
              /\ \A i \in 1..Len(links) :
                    ~AlreadyAnalyzed(memory'.analyzedPages, links[i])]_vars

\* the verdict of the Cache-Hit Heuristic as stated: one of the seven names, whatever
\* the case of its letters, is present with a value that contains "hit" or is "cached",
\* whatever the case of its letters
CacheHitAsStated(headers) ==
    \E h \in headers :
        /\ ToLowerCase(h.name) \in {"x-cache", "cf-cache-status", "x-varnish", "x-proxy-cache",
                                     "x-kinsta-cache", "x-wpe-cached", "x-litespeed-cache"}
        /\ \/ StrIncludes(ToLowerCase(h.value), "hit")
           \/ ToLowerCase(h.value) = "cached"

\* how an experiment reports a verdict
HitWord(hit) == IF hit THEN "HIT" ELSE "MISS"

----------------------------------------------------------------------------
\* C15: the experiment that test_cache_behavior appends reports, for each of its two
\* responses, the verdict of the Cache-Hit Heuristic as stated on the headers the fetch
\* collaborator answered.
C15_CacheHitHeuristic ==
    [][(/\ DispatchingTool("test_cache_behavior")
        /\ Len(memory'.experiments) = Len(memory.experiments) + 1) =>
          \E env \in world.collab :
              /\ env.http.kind = "ok"
              /\ env.http2.kind = "ok"
              /\ memory'.experiments[Len(memory'.experiments)].result =
                    "First request: " \o HitWord(CacheHitAsStated(env.http.headers))
                        \o ", Second: " \o HitWord(CacheHitAsStated(env.http2.headers))]_vars

\* the number of analyzed pages whose analysis reports the cache working
WorkingPages ==
    Cardinality({i \in 1..Len(memory.analyzedPages) :
                    memory.analyzedPages[i].value.analysis.cacheStatus.working})

----------------------------------------------------------------------------
\* C16: in the summary run() returned, pagesAnalyzed is the number of analyzedPages
\* entries and cacheWorking is true exactly when the pages reporting the cache working
\* outnumber the others (more than half of the pages); it is false for no page and
\* for one page of two.
C16_CacheWorkingMajority ==
    pc = "done" =>
        LET n == Len(memory.analyzedPages)
        IN  /\ summary[1].pagesAnalyzed = n
            /\ summary[1].cacheWorking = (WorkingPages > n - WorkingPages)
            /\ n = 0 => ~summary[1].cacheWorking
            /\ (n = 2 /\ WorkingPages = 1) => ~summary[1].cacheWorking

\* the summary of two pages, one of them reporting the cache working
C16_Witness ==
    /\ pc = "done"
    /\ Len(memory.analyzedPages) = 2
    /\ WorkingPages = 1
    /\ ~summary[1].cacheWorking

\* the inputs of the complete_analysis invocations that reached the Conversation, in order
CompleteInputs ==
    Flatten([i \in 1..Len(conversationHistory) |->
                IF conversationHistory[i].role = "assistant"
                THEN LET done == SelectSeq(conversationHistory[i].content,
                                           LAMBDA b : /\ b.type = "tool_use"
                                                      /\ b.name = "complete_analysis")
                     IN  [k \in 1..Len(done) |-> done[k].input]
                ELSE <<>>])

\* the input complete_analysis was last invoked with
PassedToComplete == CompleteInputs[Len(CompleteInputs)]

----------------------------------------------------------------------------
\* C17 as stated: in the summary run() returned, finalAnalysis and recommendations are
\* the summary text and the recommendation list that complete_analysis put in
\* FinalAnalysis, and when complete_analysis was not invoked an "incomplete" message and
\* the empty list.
C17_SummarySourcedOrEmpty ==
    pc = "done" =>
        IF completed
        THEN /\ summary[1].finalAnalysis = Field(PassedToComplete, "summary")
             /\ summary[1].recommendations = ListField(PassedToComplete, "recommendations")
        ELSE /\ StartsWith(summary[1].finalAnalysis, "Analysis incomplete")
             /\ summary[1].recommendations = <<>>

\* C17 amended: in the summary run() returned, when complete_analysis set FinalAnalysis,
\* finalAnalysis is the summary text passed to it if that text is not empty, and
\* "Analysis incomplete" if it is empty or missing, and recommendations is the list
\* passed to it (the empty list if none was passed), also when complete_analysis came on
\* the last allowed iteration; when complete_analysis did not set it, they are the
\* fallback's message "Analysis incomplete - reached iteration limit" and the fallback's
\* one recommendation.
C17_SummarySourcedOrFallback ==
    pc = "done" =>
        IF completed
        THEN /\ summary[1].finalAnalysis =
                    (IF Field(PassedToComplete, "summary") \in {"", Undefined}
                     THEN "Analysis incomplete"
                     ELSE PassedToComplete.summary)
             /\ summary[1].recommendations =
                    (IF "recommendations" \in DOMAIN PassedToComplete
                     THEN PassedToComplete.recommendations
                     ELSE <<>>)
        ELSE /\ summary[1].finalAnalysis = "Analysis incomplete - reached iteration limit"
             /\ summary[1].recommendations =
                    <<"Run agent with more iterations for complete analysis">>

\* complete_analysis came on the last allowed iteration and the summary carries its text
\* and its recommendations
C17_Witness ==
    /\ pc = "done"
    /\ completed
    /\ iteration = config.maxIterations
    /\ iteration = MaxCap
    /\ summary[1].finalAnalysis = "cache works"
    /\ summary[1].recommendations = <<"enable CDN", "fix TTL">>

\* a list without repetition
NoDuplicates(seq) == \A i, j \in 1..Len(seq) : seq[i] = seq[j] => i = j

\* the analyses of the analyzed pages, in insertion order
Analyses == [i \in 1..Len(memory.analyzedPages) |-> memory.analyzedPages[i].value.analysis]

\* the places <<page, conflict>> of the conflicts of the analyzed pages
ConflictPlaces ==
    UNION {{i} \X (1..Len(Analyses[i].conflicts)) : i \in 1..Len(Analyses)}

\* the key "<plugins joined by ' + '>: <reason>" of the conflict at a place
KeyAt(p) ==
    LET c == Analyses[p[1]].conflicts[p[2]]
    IN  Join(c.plugins, " + ") \o ": " \o c.reason

\* place p comes before place q, pages in insertion order
Before(p, q) == p[1] < q[1] \/ (p[1] = q[1] /\ p[2] < q[2])

\* the first place where a key occurs
FirstPlace(key) ==
    CHOOSE p \in ConflictPlaces :
        /\ KeyAt(p) = key
        /\ \A q \in ConflictPlaces : KeyAt(q) = key => (q = p \/ Before(p, q))

----------------------------------------------------------------------------
\* C18: in the summary run() returned, conflicts holds every conflict key of the
\* analyzed pages exactly once, in the order of the keys' first occurrences over the
\* pages in insertion order; detectedPlugins and detectedCDNs hold every plugin and
\* CDN name of the analyzed pages exactly once; experiments is the experiment log.
C18_SummaryReductions ==
    pc = "done" =>
        LET out == summary[1]
        IN  /\ NoDuplicates(out.conflicts)
            /\ Range(out.conflicts) = {KeyAt(p) : p \in ConflictPlaces}
            /\ \A i, j \in 1..Len(out.conflicts) :
                  i < j => Before(FirstPlace(out.conflicts[i]), FirstPlace(out.conflicts[j]))
            /\ NoDuplicates(out.detectedPlugins)
            /\ Range(out.detectedPlugins) =
                  UNION {Range(Analyses[i].plugins) : i \in 1..Len(Analyses)}
            /\ NoDuplicates(out.detectedCDNs)
            /\ Range(out.detectedCDNs) =
                  UNION {Range(Analyses[i].cdns) : i \in 1..Len(Analyses)}
            /\ out.experiments = memory.experiments

\* the summary of two pages with different analyses that share a conflict, a plugin and
\* a CDN
C18_Witness ==
    /\ pc = "done"
    /\ Len(Analyses) = 2
    /\ Analyses[1] # Analyses[2]
    /\ Len(summary[1].conflicts) = 2
    /\ Len(summary[1].detectedPlugins) = 3
    /\ Len(summary[1].detectedCDNs) = 2

----------------------------------------------------------------------------
\* C19: test_cache_behavior with a test_type that is none of bypass_header,
\* vary_encoding, with_cookie, query_string, mobile_ua (post_request and a missing
\* test_type included) returns "Unknown test type: <test_type>", calls no collaborator
\* and leaves experiments, and the rest of Memory, as they are.
C19_UnknownTestType ==
    [][(/\ DispatchingTool("test_cache_behavior")
        /\ Field(CurBlock.input, "test_type") \notin
              {"bypass_header", "vary_encoding", "with_cookie", "query_string", "mobile_ua"}) =>
          /\ toolResults' = Append(toolResults,
                                   [type |-> "tool_result",
                                    tool_use_id |-> CurBlock.id,
                                    content |-> "Unknown test type: "
                                                  \o ToStr(Field(CurBlock.input, "test_type"))])
          /\ calls' = calls
          /\ memory' = memory]_vars

\* post_request was rejected, in a run whose fetch collaborator answers, and nothing was
\* requested or recorded
C19_Witness ==
    /\ "Unknown test type: post_request" \in ResultsInHistory
    /\ MissThenHit \in world.collab
    /\ calls = <<>>
    /\ memory.experiments = <<>>

\* run() has ended: it returned, or it rejected
Ended(at) == at \in {"done", "rejected"}

----------------------------------------------------------------------------
\* C20: a run ends the same way whoever listens.  With a listener on every signal a
\* run that ends returns the summary of its Memory, with Memory, Conversation,
\* iteration count and completion flag as the loop left them; so every run that ends,
\* whatever its listeners, ends returning that summary.
C20_OutcomeIgnoresListeners ==
    [][(~Ended(pc) /\ Ended(pc')) =>
          /\ pc' = "done"
          /\ summary' = <<buildSummary(memory, finalAnalysis')>>
          /\ memory' = memory
          /\ conversationHistory' = conversationHistory
          /\ iteration' = iteration
          /\ completed' = completed]_vars

\* the blocks of the response that processResponse has gone through
BlocksDone == SubSeq(response.content, 1, blockIdx - 1)

\* the Conversation ends with the oracle turn just processed and all its tool results
TurnInConversation ==
    LET n == Len(conversationHistory)
        invocations == Invocations(response.content)
    IN  IF Len(invocations) = 0
        THEN conversationHistory[n] = [role |-> "assistant", content |-> response.content]
        ELSE /\ conversationHistory[n - 1] =
                    [role |-> "assistant", content |-> response.content]
             /\ ResultsAnswer(conversationHistory[n], invocations)

----------------------------------------------------------------------------
\* C21: run() does one thing at a time.  While an oracle round-trip is outstanding no
\* other round-trip starts, no collaborator is called and no tool result is collected;
\* collaborators are called only by the one tool being dispatched; a tool invocation is
\* dispatched only when every earlier invocation of the turn has returned its result,
\* and each dispatch collects its result before the next block is looked at; a
\* round-trip starts only from the head of the loop, after the whole turn and all its
\* tool results are in the Conversation.
C21_StrictlySequential ==
    [][/\ pc = "oracle" => /\ roundTrips' = roundTrips
                           /\ calls' = calls
                           /\ toolResults' = toolResults \/ toolResults' = <<>>
                           /\ memory' = memory
       /\ calls' # calls => Dispatching
       /\ Dispatching =>
            /\ Len(toolResults) = Len(Invocations(BlocksDone))
            /\ roundTrips' = roundTrips
            /\ blockIdx' = blockIdx + 1 => Len(toolResults') = Len(toolResults) + 1
       /\ roundTrips' # roundTrips =>
            /\ roundTrips' = roundTrips + 1
            /\ pc = "loop"
            /\ pc' = "oracle"
            /\ blockIdx > Len(response.content)
            /\ iteration > 0 => TurnInConversation]_vars

\* the second tool invocation of a turn is about to be dispatched, the first having
\* called its collaborators and returned its result
C21_Witness ==
    /\ Dispatching
    /\ blockIdx = 2
    /\ Len(toolResults) = 1
    /\ Len(calls) = 3

\* the calls to the collaborators made in this step
NewCalls == SubSeq(calls', Len(calls) + 1, Len(calls'))

\* the step dispatches test_cache_behavior with one of the five implemented test types
DispatchingVariant ==
    /\ DispatchingTool("test_cache_behavior")
    /\ Field(CurBlock.input, "test_type") \in
          {"bypass_header", "vary_encoding", "with_cookie", "query_string", "mobile_ua"}

\* the request is the variant of the test type for the page at url
IsVariantRequest(call, testType, url) ==
    /\ call.fn = "httpClient"
    /\ IF testType = "query_string"
       THEN /\ StartsWith(call.url, url)
            /\ StrIncludes(SubSeq(call.url, Len(url) + 1, Len(call.url)), "cache_bust=")
            /\ call.headers = {}
       ELSE /\ call.url = url
            /\ {h.name : h \in call.headers} =
                  (CASE testType = "bypass_header" -> {"Cache-Control", "Pragma"}
                     [] testType = "vary_encoding" -> {"Accept-Encoding"}
                     [] testType = "with_cookie" -> {"Cookie"}
                     [] testType = "mobile_ua" -> {"User-Agent"})

\* the step leaves Memory as it is, but for experiments
OnlyExperimentsChange ==
    /\ memory'.analyzedPages = memory.analyzedPages
    /\ memory'.discoveredUrls = memory.discoveredUrls
    /\ memory'.observations = memory.observations
    /\ memory'.hypotheses = memory.hypotheses

\* the step appends one ExperimentResult for the invocation, its conclusion empty
AppendsExperiment ==
    /\ Len(memory'.experiments) = Len(memory.experiments) + 1
    /\ IsPrefix(memory.experiments, memory'.experiments)
    /\ LET e == memory'.experiments[Len(memory'.experiments)]
       IN  /\ e.name = CurBlock.input.test_type
           /\ e.hypothesis = Field(CurBlock.input, "hypothesis")
           /\ e.conclusion = ""

----------------------------------------------------------------------------
\* C22 as stated: test_cache_behavior with one of the five implemented test types makes
\* exactly two requests, both the same variant request, appends exactly one
\* ExperimentResult (name the test type, hypothesis the given text, conclusion empty)
\* and changes nothing else of Memory.
C22_TwoRequestsOneExperiment ==
    [][DispatchingVariant =>
          /\ Len(NewCalls) = 2
          /\ NewCalls[1] = NewCalls[2]
          /\ IsVariantRequest(NewCalls[1], CurBlock.input.test_type,
                              Field(CurBlock.input, "url"))
          /\ AppendsExperiment
          /\ OnlyExperimentsChange]_vars

\* C22 amended: test_cache_behavior with one of the five implemented test types makes
\* at most two requests, each the same variant request; when it returns its report it
\* has made exactly two and appended exactly one ExperimentResult (name the test type,
\* hypothesis the given text, conclusion empty); otherwise (a request failed or
\* answered an error, or query_string came without url) its result is the error text
\* of the dispatcher and experiments is as it was; in every case nothing else of
\* Memory changes.
C22_TwoRequestsThenExperiment ==
    [][DispatchingVariant =>
          LET result == toolResults'[Len(toolResults')].content
          IN  /\ Len(NewCalls) <= 2
              /\ \A i \in 1..Len(NewCalls) :
                    /\ NewCalls[i] = NewCalls[1]
                    /\ IsVariantRequest(NewCalls[i], CurBlock.input.test_type,
                                        Field(CurBlock.input, "url"))
              /\ IF StartsWith(result, "{testType:")
                 THEN /\ Len(NewCalls) = 2
                      /\ AppendsExperiment
                 ELSE /\ StartsWith(result, "Error executing test_cache_behavior: ")
                      /\ memory'.experiments = memory.experiments
              /\ OnlyExperimentsChange]_vars

\* an experiment with request headers was run: two equal requests, one ExperimentResult
C22_Witness ==
    /\ Len(memory.experiments) = 1
    /\ memory.experiments[1].name = "with_cookie"
    /\ Len(calls) = 2
    /\ calls[1] = calls[2]
    /\ calls[1].headers # {}

----------------------------------------------------------------------------
DispatchingSameOriginFetch ==
    /\ DispatchingTool("fetch_page")
    /\ UrlValid(ToStr(Field(CurBlock.input, "url")))
    /\ hostname(CurBlock.input.url) = hostname(config.baseUrl)

\* the names of the collaborators called in this step, in order
NewCallNames == [i \in 1..Len(NewCalls) |-> NewCalls[i].fn]

----------------------------------------------------------------------------
\* C24: a same-origin fetch_page makes its calls in the order fetch, cache probe,
\* analyzer, each for the URL asked for.  When the fetch reports an error, the result is
\* the failure string "Failed to fetch <url>: <error>", neither the cache probe nor the
\* analyzer is called, and analyzedPages and discoveredUrls stay as they are.  Whenever
\* analyzedPages changes, all three were called, the tool returned its report, and the
\* page stored holds a fetch result without error; whenever the tool does not return
\* its report, analyzedPages and discoveredUrls stay as they are.
C24_FetchFailureLeavesMemory ==
    [][DispatchingSameOriginFetch =>
          LET url == CurBlock.input.url
              result == toolResults'[Len(toolResults')].content
          IN  /\ IsPrefix(NewCallNames, <<"httpClient", "cacheTester", "analyze">>)
              /\ \A i \in 1..Len(NewCalls) : NewCalls[i].url = url
              /\ Len(NewCalls) >= 1
              /\ StartsWith(result, "Failed to fetch " \o url \o ": ") =>
                    /\ NewCallNames = <<"httpClient">>
                    /\ memory' = memory
              /\ memory'.analyzedPages # memory.analyzedPages =>
                    /\ NewCallNames = <<"httpClient", "cacheTester", "analyze">>
                    /\ FetchSucceeds
              /\ FetchSucceeds =>
                    /\ NewCallNames = <<"httpClient", "cacheTester", "analyze">>
                    /\ MapHas(memory'.analyzedPages, url)
                    /\ StoredPage(url).httpResult.kind = "ok"
                    /\ StoredPage(url).httpResult.error = ""
              /\ ~FetchSucceeds =>
                    /\ memory'.analyzedPages = memory.analyzedPages
                    /\ memory'.discoveredUrls = memory.discoveredUrls]_vars

\* a same-origin fetch failed with the collaborator's error, after one call, and left
\* Memory as the constructor made it
C24_Witness ==
    /\ "Failed to fetch https://site.com/blog: ETIMEDOUT" \in ResultsInHistory
    /\ Len(calls) = 1
    /\ memory.analyzedPages = <<>>
    /\ memory.discoveredUrls = {BaseUrl}

\* the Conversation as the oracle is to receive it: the seeding user turn first, user
\* (dispatcher) and oracle turns in strict alternation, a user or dispatcher turn last
WellFormed(history) ==
    /\ Len(history) >= 1
    /\ history[1] = [role |-> "user",
                     content |-> <<[type |-> "text", text |-> InitialPrompt]>>]
    /\ \A i \in 1..Len(history) :
          history[i].role = (IF i % 2 = 1 THEN "user" ELSE "assistant")
    /\ history[Len(history)].role = "user"

----------------------------------------------------------------------------
\* C25: whenever an oracle round-trip is outstanding, the Conversation it was sent is
\* well-formed.
C25_ConversationWellFormed == pc = "oracle" => WellFormed(conversationHistory)

\* no oracle turn of the Conversation holds a tool invocation
NoInvocationEver ==
    \A i \in 1..Len(conversationHistory) :
        conversationHistory[i].role = "assistant" =>
            Len(Invocations(conversationHistory[i].content)) = 0

----------------------------------------------------------------------------
\* C26: every run in which each await resumes ends (run() returns its summary or rejects),
\* whatever the oracle answers, and it never makes more than N = config.maxIterations
\* iterations or oracle round-trips.
C26_RunTerminates ==
    /\ <>Ended(pc)
    /\ [](iteration <= config.maxIterations /\ roundTrips <= config.maxIterations)

\* a run ended at its cap with an oracle that never invoked a tool
C26_Witness ==
    /\ pc = "done"
    /\ ~completed
    /\ iteration = MaxCap
    /\ Len(conversationHistory) = 1 + MaxCap
    /\ NoInvocationEver

====
